---- MODULE Spec2Model ----
(***************************************************************************)
(* Persistent forum core of lunachat: the id allocator (HighestKeys), the  *)
(* Posts and Threads tables and the two mutation protocols, ThreadCreate   *)
(* (ThreadPost::from_request / thread_post) and Reply                      *)
(* (PostPost::from_request / post_post).                                   *)
(*                                                                         *)
(* Request handlers run on a multithreaded executor, so every call into    *)
(* the key-value engine (next_key, insert, get, iter, flush) is one atomic *)
(* step of a handler and the steps of different handlers interleave.       *)
(***************************************************************************)
EXTENDS Integers, Sequences, FiniteSets, TLC

\* ------------------------------------------------------------------ bounds
NumProcs == 2
MaxOps == 3
MaxThreadKey == 1
MaxRows == 3
MaxRuns == 2
MaxViewPosts == 2
MaxChildren == 2
MaxOffset == 2

Procs == 1..NumProcs
ThreadKeyInputs == 0..MaxThreadKey

\* --------------------------------------------------------------- constants
TableTypes == {"Posts", "Users", "HighestKeys", "Threads"}
Authors == {0}
RawTexts == {"hi", "<script>x</script>hi"}
Usernames == {"alice", "bob"}
Passwords == {"pw"}

VARIABLES
    highest_keys,  \* state/key.rs HighestKeys: TableType -> Option<u64>
    posts,         \* state/post.rs Posts: PostKey -> Post
    threads,       \* state/thread.rs Threads: ThreadKey -> Thread
    pc,            \* position of each handler in from_request
    loc,           \* the handler's locals
    ops,           \* number of requests served so far
    returned,      \* history: the ids HighestKeys::next has returned, per table
    insertOrder,   \* history: post keys in the order their rows first appeared
    overlapped,    \* history: some handler started while another was running
    users,         \* state/user.rs Users.users: UserKey -> User
    usernames,     \* state/user.rs Users.usernames: String -> UserKey
    versions,      \* state/mod.rs Versions: TableType -> Option<u64>
    disk,          \* the tables as the last flush left them on disk; None
                   \* where no restart can observe the disk
    tsub,          \* the ThreadsFeed connection: threads.watch() and its stream
    psub,          \* the PostsFeed connection: posts.watch() and its stream
    mig            \* position and locals of the offline migrator process

regVars == <<users, usernames>>
migVars == <<versions, mig>>

vars == <<highest_keys, posts, threads, pc, loc, ops, returned, insertOrder,
          overlapped, users, usernames, versions, disk, tsub, psub, mig>>

\* Option<T> is a sequence of length at most one.
None == <<>>
Some(x) == <<x>>

EmptyTree == [k \in {} |-> 0]

\* ------------------------------------------------------------------- codec
\* The bytes of n, least significant first (bincode's default byte order).
RECURSIVE LittleEndian(_, _)
LittleEndian(n, width) ==
    IF width = 0 THEN <<>>
    ELSE <<n % 256>> \o LittleEndian(n \div 256, width - 1)

RECURSIVE BigEndian(_, _)
BigEndian(n, width) ==
    IF width = 0 THEN <<>>
    ELSE Append(BigEndian(n \div 256, width - 1), n % 256)

\* BINCODE = bincode::options().with_big_endian(): variable-length integers.
Serialize(n) ==
    IF n < 251 THEN <<n>>
    ELSE IF n < 65536 THEN <<251>> \o BigEndian(n, 2)
    ELSE IF n \div 65536 < 65536 THEN <<252>> \o BigEndian(n, 4)
    ELSE <<253>> \o BigEndian(n, 8)

\* Lexicographic order on byte strings, the order of the engine's keys.
RECURSIVE BytesLess(_, _)
BytesLess(a, b) ==
    IF b = <<>> THEN FALSE
    ELSE IF a = <<>> THEN TRUE
    ELSE IF Head(a) # Head(b) THEN Head(a) < Head(b)
    ELSE BytesLess(Tail(a), Tail(b))

\* An iterator that walks the tree backwards (greatest key first).
RECURSIVE IterKeysDescending(_)
IterKeysDescending(keys) ==
    IF keys = {} THEN <<>>
    ELSE LET first == CHOOSE k \in keys :
                        \A o \in keys \ {k} : BytesLess(Serialize(o), Serialize(k))
         IN <<first>> \o IterKeysDescending(keys \ {first})

\* DbTreeLookup::iter: the keys of a tree in the engine's key order.
RECURSIVE IterKeys(_)
IterKeys(keys) ==
    IF keys = {} THEN <<>>
    ELSE LET first == CHOOSE k \in keys :
                        \A o \in keys \ {k} : BytesLess(Serialize(k), Serialize(o))
         IN <<first>> \o IterKeys(keys \ {first})

\* DbTreeIter::values
IterValues(tree) ==
    LET ks == IterKeys(DOMAIN tree)
    IN [i \in 1..Len(ks) |-> tree[ks[i]]]

\* DbTreeLookup::get
Get(tree, key) == IF key \in DOMAIN tree THEN Some(tree[key]) ELSE None

\* DbTreeLookup::insert
Insert(tree, key, value) == (key :> value) @@ tree

\* Sanitizer::clean (ammonia): drops script elements, keeps plain text.
Clean(raw) == IF raw = "<script>x</script>hi" THEN "hi" ELSE raw

\* ------------------------------------------------------------ id allocator
\* A next that hands back the fetched value but never stores the increment.
HighestKeysNextStale(counter) ==
    [stored |-> counter,
     key |-> IF counter = None THEN 0 ELSE counter[1]]

\* HighestKeys::next: fetch_and_update stores old+1 (absent counts as 0) and
\* hands back the value that was stored before the update.
HighestKeysNext(counter) ==
    LET new == (IF counter = None THEN 0 ELSE counter[1]) + 1
        fetched == counter
    IN [stored |-> Some(new),
        key |-> IF fetched = None THEN 0 ELSE fetched[1]]

NoPost == [key |-> 0, body |-> "", author |-> 0, parent |-> None,
           children |-> <<>>, thread |-> 0]

NoLoc == [thread_key |-> 0, post_key |-> 0, key |-> 0, parent_key |-> 0,
          parent |-> NoPost, username |-> "", password |-> "",
          found |-> None, auth |-> None, view |-> None, bytes |-> <<>>]

\* A connection that has not subscribed: no watch, no stream.
NoSub == [active |-> FALSE, thread_key |-> 0, since |-> {}, queue |-> <<>>,
          frames |-> <<>>]

\* The migrator process is not running and has not run; ok tells whether
\* the last run that ended returned Ok.  origin describes
\* the database the behaviour started from: posts1 is the number of Post1
\* rows of a legacy database (-1: a database the server created) and
\* posts_version the version of Posts recorded in it.  before remembers the
\* recorded versions the current run found and fault the number of the run
\* that a storage error ended (0: none).
NoMig == [pc |-> "off", runs |-> 0, ok |-> FALSE, version |-> 0,
          todo |-> <<>>, origin |-> [posts1 |-> -1, posts_version |-> Some(1)],
          before |-> <<>>, fault |-> 0]

\* sled keeps all trees of a database in one log: a flush on any tree makes
\* every write that precedes it durable.
Flushed ==
    [highest_keys |-> highest_keys, posts |-> posts, threads |-> threads,
     users |-> users, usernames |-> usernames, versions |-> versions]

\* DbTreeLookup::flush (tree.flush_async().await).  The disk image is followed
\* only in the specification that has restarts (disk # None).
FlushAsync == disk' = IF disk = None THEN None ELSE Some(Flushed)

\* A startup block that writes version 1 whether or not a version is there.
StartupVersionsAlways(vs) == [t \in TableTypes |-> Some(1)]

\* lib.rs apply_middleware / bin/main.rs main: a table whose version is absent
\* gets version 1; a present version is left alone.
StartupVersions(vs) ==
    [t \in TableTypes |-> IF vs[t] = None THEN Some(1) ELSE vs[t]]

Init ==
    /\ highest_keys = [t \in TableTypes |-> None]
    /\ posts = EmptyTree
    /\ threads = EmptyTree
    /\ pc = [p \in Procs |-> "idle"]
    /\ loc = [p \in Procs |-> NoLoc]
    /\ ops = 0
    /\ returned = [t \in TableTypes |-> <<>>]
    /\ insertOrder = <<>>
    /\ overlapped = FALSE
    /\ users = EmptyTree
    /\ usernames = EmptyTree
    /\ versions = StartupVersions([t \in TableTypes |-> None])
    /\ disk = None
    /\ tsub = NoSub
    /\ psub = NoSub
    /\ mig = NoMig

\* An allocator that keeps one counter for all tables.
AllocKeyShared(table) ==
    LET r == HighestKeysNext(highest_keys[table])
    IN /\ highest_keys' = [t \in TableTypes |-> r.stored]
       /\ returned' = [returned EXCEPT ![table] = Append(@, r.key)]

\* Posts::next_key / Threads::next_key: one atomic read-modify-write on the
\* counter of `table`; the id handed back is HighestKeysNext(...).key.
AllocKey(table) ==
    LET r == HighestKeysNext(highest_keys[table])
    IN /\ highest_keys' = [highest_keys EXCEPT ![table] = r.stored]
       /\ returned' = [returned EXCEPT ![table] = Append(@, r.key)]

AllocatedKey(table) == HighestKeysNext(highest_keys[table]).key

\* An insert that tells no subscriber.
PublishNothing(sub, key, value) == sub

\* Tree::insert hands an Insert event to every subscriber of the tree
\* (state/mod.rs watch: watch_prefix([]) sees every key).
Publish(sub, key, value) ==
    IF sub.active
    THEN [sub EXCEPT !.queue = Append(@, [kind |-> "Insert", key |-> key,
                                          value |-> value])]
    ELSE sub

\* posts.insert(key, post); insertOrder records the first insertion of a row.
InsertPost(key, post) ==
    /\ posts' = Insert(posts, key, post)
    /\ insertOrder' = IF key \in DOMAIN posts THEN insertOrder
                      ELSE Append(insertOrder, key)
    /\ psub' = Publish(psub, key, post)

\* threads.insert(key, thread)
InsertThread(key, thread) ==
    /\ threads' = Insert(threads, key, thread)
    /\ tsub' = Publish(tsub, key, thread)

AllIdle == \A p \in Procs : pc[p] = "idle"

\* A request arrives and its handler starts.  Handlers are anonymous tasks, so
\* the request takes the first free slot.  ops counts the requests served;
\* overlapped records that some handler started while another was running.
Begin(p) ==
    /\ \A q \in Procs : q < p => pc[q] # "idle"
    /\ ops' = ops + 1
    /\ overlapped' = (overlapped \/ ~AllIdle)

Finish(p) ==
    /\ pc' = [pc EXCEPT ![p] = "idle"]
    /\ loc' = [loc EXCEPT ![p] = NoLoc]

\* --------------------------------------------------------------- ThreadCreate
\* let thread_key = threads.next_key()?;
ThreadPostNextThreadKey(p) ==
    /\ pc[p] = "idle"
    /\ ops < MaxOps
    /\ Begin(p)
    /\ AllocKey("Threads")
    /\ loc' = [loc EXCEPT ![p].thread_key = AllocatedKey("Threads")]
    /\ pc' = [pc EXCEPT ![p] = "tc_next_post"]
    /\ UNCHANGED <<posts, threads, insertOrder,
                 regVars, migVars, disk, tsub, psub>>

\* let post_key = posts.next_key()?;
ThreadPostNextPostKey(p) ==
    /\ pc[p] = "tc_next_post"
    /\ AllocKey("Posts")
    /\ loc' = [loc EXCEPT ![p].post_key = AllocatedKey("Posts")]
    /\ pc' = [pc EXCEPT ![p] = "tc_insert_post"]
    /\ UNCHANGED <<posts, threads, ops, insertOrder, overlapped,
                 regVars, migVars, disk, tsub, psub>>

\* A root post that files itself under its own key instead of the thread's.
RootPostOwnKey(post_key, author, body, thread_key) ==
    [key |-> post_key, body |-> Clean(body), author |-> author,
     parent |-> None, children |-> <<>>, thread |-> post_key]

RootPost(post_key, author, body, thread_key) ==
    [key |-> post_key, body |-> Clean(body), author |-> author,
     parent |-> None, children |-> <<>>, thread |-> thread_key]

\* A ThreadCreate that writes the thread row where the root post belongs.
ThreadPostInsertPostLate(p) ==
    /\ pc[p] = "tc_insert_post"
    /\ \E title \in RawTexts :
         InsertThread(loc[p].thread_key,
                      [key |-> loc[p].thread_key, title |-> Clean(title),
                       post |-> loc[p].post_key])
    /\ pc' = [pc EXCEPT ![p] = "tc_flush_posts"]
    /\ UNCHANGED <<highest_keys, posts, loc, ops, returned, insertOrder, overlapped,
                 regVars, migVars, disk, psub>>

\* posts.insert(post_key, post.clone())?;
ThreadPostInsertPost(p) ==
    /\ pc[p] = "tc_insert_post"
    /\ \E author \in Authors, body \in RawTexts :
         InsertPost(loc[p].post_key,
                    RootPost(loc[p].post_key, author, body, loc[p].thread_key))
    /\ pc' = [pc EXCEPT ![p] = "tc_flush_posts"]
    /\ UNCHANGED <<highest_keys, threads, loc, ops, returned, overlapped,
                 regVars, migVars, disk, tsub>>

\* posts.flush().await?;   (success)
ThreadPostFlushPosts(p) ==
    /\ pc[p] = "tc_flush_posts"
    /\ pc' = [pc EXCEPT ![p] = "tc_insert_thread"]
    /\ FlushAsync
    /\ UNCHANGED <<highest_keys, posts, threads, loc, ops, returned, insertOrder, overlapped,
                 regVars, migVars, tsub, psub>>

\* posts.flush().await?;   (storage error: the handler returns, the root
\* post stays without a thread row)
ThreadPostFlushPostsFail(p) ==
    /\ pc[p] = "tc_flush_posts"
    /\ Finish(p)
    /\ UNCHANGED disk
    /\ UNCHANGED <<highest_keys, posts, threads, ops, returned, insertOrder, overlapped,
                 regVars, migVars, tsub, psub>>

NewThread(thread_key, title, post_key) ==
    [key |-> thread_key, title |-> Clean(title), post |-> post_key]

\* threads.insert(thread_key, thread.clone())?;
ThreadPostInsertThread(p) ==
    /\ pc[p] = "tc_insert_thread"
    /\ \E title \in RawTexts :
         InsertThread(loc[p].thread_key,
                      NewThread(loc[p].thread_key, title, loc[p].post_key))
    /\ pc' = [pc EXCEPT ![p] = "tc_flush_threads"]
    /\ UNCHANGED <<highest_keys, posts, loc, ops, returned, insertOrder, overlapped,
                 regVars, migVars, disk, psub>>

\* threads.flush().await?; Ok(ThreadPost(thread_key))
ThreadPostFlushThreads(p) ==
    /\ pc[p] = "tc_flush_threads"
    /\ Finish(p)
    /\ FlushAsync
    /\ UNCHANGED <<highest_keys, posts, threads, ops, returned, insertOrder, overlapped,
                 regVars, migVars, tsub, psub>>

\* ---------------------------------------------------------------------- Reply
\* let key = posts.next_key()?;   (thread_key is the request's path parameter)
PostPostNextKey(p) ==
    /\ pc[p] = "idle"
    /\ ops < MaxOps
    /\ Begin(p)
    /\ AllocKey("Posts")
    /\ \E thread_key \in ThreadKeyInputs :
         loc' = [loc EXCEPT ![p].key = AllocatedKey("Posts"),
                            ![p].thread_key = thread_key]
    /\ pc' = [pc EXCEPT ![p] = "pp_scan"]
    /\ UNCHANGED <<posts, threads, insertOrder,
                 regVars, migVars, disk, tsub, psub>>

\* A scan that takes the first matching row instead of the last.
FirstPostOfThread(tree, thread_key) ==
    LET matching == SelectSeq(IterValues(tree),
                              LAMBDA post : post.thread = thread_key)
    IN IF matching = <<>> THEN None
       ELSE Some(matching[1].key)

\* posts.iter().values().filter_map(ok).filter(thread == thread_key).last()
\* .map(|post| post.key).  The engine has no removals, so a lazy scan yields
\* the same row as a scan of the table at the instant the chosen row is read.
LastPostOfThread(tree, thread_key) ==
    LET matching == SelectSeq(IterValues(tree),
                              LAMBDA post : post.thread = thread_key)
    IN IF matching = <<>> THEN None
       ELSE Some(matching[Len(matching)].key)

\* parent_key found
PostPostScan(p) ==
    /\ pc[p] = "pp_scan"
    /\ LastPostOfThread(posts, loc[p].thread_key) # None
    /\ loc' = [loc EXCEPT ![p].parent_key =
                              LastPostOfThread(posts, loc[p].thread_key)[1]]
    /\ pc' = [pc EXCEPT ![p] = "pp_get_thread"]
    /\ UNCHANGED <<highest_keys, posts, threads, ops, returned, insertOrder, overlapped,
                 regVars, migVars, disk, tsub, psub>>

\* .ok_or(Error::ThreadHasNoPosts(thread_key))?
PostPostScanNoPosts(p) ==
    /\ pc[p] = "pp_scan"
    /\ LastPostOfThread(posts, loc[p].thread_key) = None
    /\ Finish(p)
    /\ UNCHANGED <<highest_keys, posts, threads, ops, returned, insertOrder, overlapped,
                 regVars, migVars, disk, tsub, psub>>

\* let thread_key = posts.get(parent_key)?.ok_or(PostNotFound)?.thread;
PostPostGetThread(p) ==
    /\ pc[p] = "pp_get_thread"
    /\ Get(posts, loc[p].parent_key) # None
    /\ loc' = [loc EXCEPT ![p].thread_key = Get(posts, loc[p].parent_key)[1].thread]
    /\ pc' = [pc EXCEPT ![p] = "pp_insert_child"]
    /\ UNCHANGED <<highest_keys, posts, threads, ops, returned, insertOrder, overlapped,
                 regVars, migVars, disk, tsub, psub>>

\* A reply built without its parent link.
ChildPostNoParent(key, author, body, parent_key, thread_key) ==
    [key |-> key, body |-> Clean(body), author |-> author,
     parent |-> None, children |-> <<>>, thread |-> thread_key]

ChildPost(key, author, body, parent_key, thread_key) ==
    [key |-> key, body |-> Clean(body), author |-> author,
     parent |-> Some(parent_key), children |-> <<>>, thread |-> thread_key]

\* posts.insert(key, post.clone())?;
PostPostInsertChild(p) ==
    /\ pc[p] = "pp_insert_child"
    /\ \E author \in Authors, body \in RawTexts :
         InsertPost(loc[p].key,
                    ChildPost(loc[p].key, author, body, loc[p].parent_key,
                              loc[p].thread_key))
    /\ pc' = [pc EXCEPT ![p] = "pp_get_parent"]
    /\ UNCHANGED <<highest_keys, threads, loc, ops, returned, overlapped,
                 regVars, migVars, disk, tsub>>

\* let mut parent = posts.get(parent_key)?.ok_or(PostNotFound)?;
PostPostGetParent(p) ==
    /\ pc[p] = "pp_get_parent"
    /\ Get(posts, loc[p].parent_key) # None
    /\ loc' = [loc EXCEPT ![p].parent = Get(posts, loc[p].parent_key)[1]]
    /\ pc' = [pc EXCEPT ![p] = "pp_insert_parent"]
    /\ UNCHANGED <<highest_keys, posts, threads, ops, returned, insertOrder, overlapped,
                 regVars, migVars, disk, tsub, psub>>

\* parent.children.push(key);
PushChild(parent, key) == [parent EXCEPT !.children = Append(@, key)]

\* posts.insert(parent_key, parent)?;
PostPostInsertParent(p) ==
    /\ pc[p] = "pp_insert_parent"
    /\ InsertPost(loc[p].parent_key, PushChild(loc[p].parent, loc[p].key))
    /\ loc' = [loc EXCEPT ![p].parent = NoPost]
    /\ pc' = [pc EXCEPT ![p] = "pp_flush"]
    /\ UNCHANGED <<highest_keys, threads, ops, returned, overlapped,
                 regVars, migVars, disk, tsub>>

\* posts.flush().await?; Ok(PostPost(key, thread_key))
PostPostFlush(p) ==
    /\ pc[p] = "pp_flush"
    /\ Finish(p)
    /\ FlushAsync
    /\ UNCHANGED <<highest_keys, posts, threads, ops, returned, insertOrder, overlapped,
                 regVars, migVars, tsub, psub>>

\* --------------------------------------------------------------- Registration
\* users.get_by_username(&creds.username): self.usernames.get(username).
\* No index entry: get_by_username is Ok(None) and the handler goes on.
RegisterPostLookupUsername(p) ==
    /\ pc[p] = "idle"
    /\ ops < MaxOps
    /\ Begin(p)
    /\ \E username \in Usernames, password \in Passwords :
         LET found == Get(usernames, username)
         IN /\ loc' = [loc EXCEPT ![p].username = username,
                                   ![p].password = password,
                                   ![p].key = IF found = None THEN 0
                                              ELSE found[1]]
            /\ pc' = [pc EXCEPT ![p] = IF found = None THEN "rg_next_key"
                                       ELSE "rg_lookup_user"]
    /\ UNCHANGED <<highest_keys, posts, threads, returned, insertOrder,
                   regVars, migVars, disk, tsub, psub>>

\* A handler that registers the user whether or not the name is taken.
RegisterPostLookupUserIgnored(p) ==
    /\ pc[p] = "rg_lookup_user"
    /\ pc' = [pc EXCEPT ![p] = "rg_next_key"]
    /\ UNCHANGED <<highest_keys, posts, threads, loc, ops, returned,
                   insertOrder, overlapped, regVars, migVars, disk, tsub,
                   psub>>

\* get_by_username: self.users.get(key); Some(user) is "Username already
\* taken", the handler returns RegisterPost::Failure.
RegisterPostLookupUser(p) ==
    /\ pc[p] = "rg_lookup_user"
    /\ IF Get(users, loc[p].key) # None
       THEN Finish(p)
       ELSE /\ pc' = [pc EXCEPT ![p] = "rg_next_key"]
            /\ UNCHANGED loc
    /\ UNCHANGED <<highest_keys, posts, threads, ops, returned, insertOrder,
                   overlapped, regVars, migVars, disk, tsub, psub>>

\* let key = users.next_key()?;
RegisterPostNextKey(p) ==
    /\ pc[p] = "rg_next_key"
    /\ AllocKey("Users")
    /\ loc' = [loc EXCEPT ![p].key = AllocatedKey("Users")]
    /\ pc' = [pc EXCEPT ![p] = "rg_insert_user"]
    /\ UNCHANGED <<posts, threads, ops, insertOrder, overlapped,
                   regVars, migVars, disk, tsub, psub>>

\* Argon2::default().hash_password(password, salt): only the password that
\* was hashed verifies against the hash.
HashPassword(password) == <<"argon2", password>>

NewUser(key, username, password) ==
    [key |-> key, username |-> username, password |-> HashPassword(password),
     avatar |-> None]

\* An insert that writes the index entry first.
RegisterPostInsertIndexFirst(p) ==
    /\ pc[p] = "rg_insert_user"
    /\ usernames' = Insert(usernames, loc[p].username, loc[p].key)
    /\ pc' = [pc EXCEPT ![p] = "rg_insert_username"]
    /\ UNCHANGED <<highest_keys, posts, threads, loc, ops, returned,
                   insertOrder, overlapped, users, migVars, disk, tsub, psub>>

\* Users::insert, first write: self.users.insert(key, value)?;
RegisterPostInsertUser(p) ==
    /\ pc[p] = "rg_insert_user"
    /\ users' = Insert(users, loc[p].key,
                       NewUser(loc[p].key, loc[p].username, loc[p].password))
    /\ pc' = [pc EXCEPT ![p] = "rg_insert_username"]
    /\ UNCHANGED <<highest_keys, posts, threads, loc, ops, returned,
                   insertOrder, overlapped, usernames, migVars, disk, tsub,
                   psub>>

\* Users::insert, second write: self.usernames.insert(username, key)?;
RegisterPostInsertUsername(p) ==
    /\ pc[p] = "rg_insert_username"
    /\ usernames' = Insert(usernames, loc[p].username, loc[p].key)
    /\ pc' = [pc EXCEPT ![p] = "rg_flush"]
    /\ UNCHANGED <<highest_keys, posts, threads, loc, ops, returned,
                   insertOrder, overlapped, users, migVars, disk, tsub, psub>>

\* users.flush().await?; auth.login(&user); Ok(RegisterPost::Success)
RegisterPostFlush(p) ==
    /\ pc[p] = "rg_flush"
    /\ FlushAsync
    /\ Finish(p)
    /\ UNCHANGED <<highest_keys, posts, threads, ops, returned, insertOrder,
                   overlapped, regVars, migVars, tsub, psub>>

\* ------------------------------------------------------------ specifications
Step(p) ==
    \/ ThreadPostNextPostKey(p)
    \/ ThreadPostInsertPost(p)
    \/ ThreadPostFlushPosts(p)
    \/ ThreadPostFlushPostsFail(p)
    \/ ThreadPostInsertThread(p)
    \/ ThreadPostFlushThreads(p)
    \/ PostPostScan(p)
    \/ PostPostScanNoPosts(p)
    \/ PostPostGetThread(p)
    \/ PostPostInsertChild(p)
    \/ PostPostGetParent(p)
    \/ PostPostInsertParent(p)
    \/ PostPostFlush(p)

Next ==
    \E p \in Procs :
        \/ ThreadPostNextThreadKey(p)
        \/ PostPostNextKey(p)
        \/ Step(p)

\* Requests are served concurrently.
Spec == Init /\ [][Next]_vars

\* ------------------------------------------------------------------ restarts
\* sled's flusher thread (flush_every_ms, 500 ms by default) and the flush
\* of a database that is dropped on a clean shutdown: the disk catches up
\* with the tables.
BackgroundFlush ==
    /\ disk # None
    /\ disk # Some(Flushed)
    /\ disk' = Some(Flushed)
    /\ UNCHANGED <<highest_keys, posts, threads, pc, loc, ops, returned,
                   insertOrder, overlapped, regVars, migVars, tsub, psub>>

\* The server process stops (killed or shut down) and is started again:
\* running handlers and open connections are gone, sled::open("db") recovers
\* what the disk holds, and the startup block gives absent versions the
\* value 1.
Restart ==
    /\ disk # None
    /\ highest_keys' = disk[1].highest_keys
    /\ posts' = disk[1].posts
    /\ threads' = disk[1].threads
    /\ users' = disk[1].users
    /\ usernames' = disk[1].usernames
    /\ versions' = StartupVersions(disk[1].versions)
    /\ disk' = Some([disk[1] EXCEPT !.versions = StartupVersions(@)])
    /\ pc' = [p \in Procs |-> "idle"]
    /\ loc' = [p \in Procs |-> NoLoc]
    /\ tsub' = NoSub
    /\ psub' = NoSub
    /\ UNCHANGED <<ops, returned, insertOrder, overlapped, mig>>

\* The server on a fresh database, with the disk image followed.
RestartInit ==
    /\ highest_keys = [t \in TableTypes |-> None]
    /\ posts = EmptyTree
    /\ threads = EmptyTree
    /\ pc = [p \in Procs |-> "idle"]
    /\ loc = [p \in Procs |-> NoLoc]
    /\ ops = 0
    /\ returned = [t \in TableTypes |-> <<>>]
    /\ insertOrder = <<>>
    /\ overlapped = FALSE
    /\ users = EmptyTree
    /\ usernames = EmptyTree
    /\ versions = StartupVersions([t \in TableTypes |-> None])
    /\ disk = Some(Flushed)
    /\ tsub = NoSub
    /\ psub = NoSub
    /\ mig = NoMig

RestartNext ==
    \/ Next
    \/ BackgroundFlush
    \/ Restart

\* The server with requests served concurrently, flushes and restarts.
RestartSpec == RestartInit /\ [][RestartNext]_vars

\* ------------------------------------------------------------------ migrator
\* The field lists of the row types, in declaration order.
User1Fields == {"key", "username", "password"}
UserFields == User1Fields \cup {"avatar"}
Post1Fields == {"key", "body", "author"}
Post2Fields == Post1Fields \cup {"parent", "children"}
PostFields == Post2Fields \cup {"thread"}

\* BINCODE.deserialize::<T>(&value).  bincode writes the fields one after
\* another with no names; bincode::options() rejects trailing bytes and a
\* short input is an error, so a row decodes as T only if it was written
\* with exactly T's fields.  None is the Err.
Deserialize(value, fields) ==
    IF DOMAIN value = fields THEN Some(value) ELSE None

\* The variables the migrator does not touch.
serverVars == <<pc, loc, ops, insertOrder, overlapped, usernames, disk, psub>>

\* Startup block of the server (lib.rs apply_middleware, bin/main.rs main).
\* sled::open takes the database lock, so server and migrator never run at
\* the same time.
ServerStartup ==
    /\ mig.pc = "off"
    /\ versions' = StartupVersions(versions)
    /\ UNCHANGED <<highest_keys, posts, threads, users, mig, returned, tsub,
                   serverVars>>

\* let db = sled::open("db")?;
MigrateOpen ==
    /\ mig.pc = "off"
    /\ mig.runs < MaxRuns
    /\ mig' = [mig EXCEPT !.pc = "users", !.runs = @ + 1,
                          !.before = versions]
    /\ UNCHANGED <<highest_keys, posts, threads, users, versions, returned,
                   tsub, serverVars>>

\* The process ends with an error (? on an Err, or a panic).
MigrateAbort == [mig EXCEPT !.pc = "off", !.ok = FALSE, !.todo = <<>>]

\* migrate_up_to!(db, TableType::Users, "users", 2, (1, User1, User, ..)):
\* the version test.  Absent: the version becomes 2 and no row is read.
MigrateUsersVersion ==
    /\ mig.pc = "users"
    /\ LET v == versions["Users"]
       IN IF v = None
          THEN /\ versions' = [versions EXCEPT !["Users"] = Some(2)]
               /\ mig' = [mig EXCEPT !.pc = "posts"]
          ELSE /\ UNCHANGED versions
               /\ mig' = IF v[1] < 2
                         THEN [mig EXCEPT !.pc = "users_1", !.version = v[1],
                                          !.todo = IF v[1] = 1
                                                   THEN IterKeys(DOMAIN users)
                                                   ELSE <<>>]
                         ELSE [mig EXCEPT !.pc = "posts"]
    /\ UNCHANGED <<highest_keys, posts, threads, users, returned, tsub,
                   serverVars>>

migrate_user1(user) ==
    [key |-> user.key, username |-> user.username,
     password |-> user.password, avatar |-> None]

\* One turn of `for item in tree.iter()` of the User1 -> User step.
MigrateUser1 ==
    /\ mig.pc = "users_1"
    /\ mig.todo # <<>>
    /\ LET key == Head(mig.todo)
           value == Deserialize(users[key], User1Fields)
       IN IF value = None
          THEN /\ mig' = MigrateAbort
               /\ UNCHANGED users
          ELSE /\ users' = Insert(users, key, migrate_user1(value[1]))
               /\ mig' = [mig EXCEPT !.todo = Tail(@)]
    /\ UNCHANGED <<highest_keys, posts, threads, versions, returned, tsub,
                   serverVars>>

\* End of the steps: tree.flush_async, versions.insert(Users, version),
\* versions.flush.
MigrateUsersDone ==
    /\ mig.pc = "users_1"
    /\ mig.todo = <<>>
    /\ versions' = [versions EXCEPT !["Users"] =
                        Some(IF mig.version = 1 THEN 2 ELSE mig.version)]
    /\ mig' = [mig EXCEPT !.pc = "posts"]
    /\ UNCHANGED <<highest_keys, posts, threads, users, returned, tsub,
                   serverVars>>

\* A version test that stamps a table already at the newest version with
\* the next number.
MigratePostsVersionRestamp ==
    /\ mig.pc = "posts"
    /\ versions["Posts"] # None
    /\ versions' = [versions EXCEPT !["Posts"] = Some(@[1] + 1)]
    /\ mig' = [mig EXCEPT !.pc = "off", !.ok = TRUE]
    /\ UNCHANGED <<highest_keys, posts, threads, users, returned, tsub,
                   serverVars>>

\* A version test that takes a table without recorded version for a table
\* at version 1 and runs every step over it.
MigratePostsVersionAbsentIsOne ==
    /\ mig.pc = "posts"
    /\ LET v == IF versions["Posts"] = None THEN 1 ELSE versions["Posts"][1]
       IN mig' = IF v < 3
                 THEN [mig EXCEPT !.pc = IF v = 2 THEN "posts_2" ELSE "posts_1",
                                  !.version = v,
                                  !.todo = IterKeys(DOMAIN posts)]
                 ELSE [mig EXCEPT !.pc = "off", !.ok = TRUE]
    /\ UNCHANGED <<highest_keys, posts, threads, users, versions, returned,
                   tsub, serverVars>>

\* migrate_up_to!(db, TableType::Posts, "posts", 3, (1, Post1, Post2, ..),
\* (2, Post2, Post, ..)): the version test.  Absent: the version becomes 3,
\* no row is read, and main returns Ok.
MigratePostsVersion ==
    /\ mig.pc = "posts"
    /\ LET v == versions["Posts"]
       IN IF v = None
          THEN /\ versions' = [versions EXCEPT !["Posts"] = Some(3)]
               /\ mig' = [mig EXCEPT !.pc = "off", !.ok = TRUE]
          ELSE /\ UNCHANGED versions
               /\ mig' = IF v[1] < 3
                         THEN [mig EXCEPT !.pc = IF v[1] = 2 THEN "posts_2"
                                                 ELSE "posts_1",
                                          !.version = v[1],
                                          !.todo = IF v[1] \in {1, 2}
                                                   THEN IterKeys(DOMAIN posts)
                                                   ELSE <<>>]
                         ELSE [mig EXCEPT !.pc = "off", !.ok = TRUE]
    /\ UNCHANGED <<highest_keys, posts, threads, users, returned, tsub,
                   serverVars>>

\* migrate_post1: posts.iter().keys().tuple_windows() yields the windows
\* (prev, this, next) of three consecutive keys; the first window whose
\* middle key is the post's gives (Some(prev), Some(next)), and a post that
\* is the middle of no window gets (None, None).
Post1Links(keys, key) ==
    LET ks == IterKeys(keys)
        hits == {i \in 1..(Len(ks) - 2) : ks[i + 1] = key}
    IN IF hits = {} THEN [parent |-> None, child |-> None]
       ELSE LET i == CHOOSE h \in hits : TRUE
            IN [parent |-> Some(ks[i]), child |-> Some(ks[i + 2])]

migrate_post1(post, links) ==
    [key |-> post.key, body |-> post.body, author |-> post.author,
     parent |-> links.parent, children |-> links.child]

\* One turn of `for item in tree.iter()` of the Post1 -> Post2 step.  A post
\* without parent gets a new thread: threads.next_key(), threads.insert.
MigratePost1 ==
    /\ mig.pc = "posts_1"
    /\ mig.todo # <<>>
    /\ LET key == Head(mig.todo)
           value == Deserialize(posts[key], Post1Fields)
           links == Post1Links(DOMAIN posts, value[1].key)
       IN IF value = None
          THEN /\ mig' = MigrateAbort
               /\ UNCHANGED <<highest_keys, posts, threads, returned, tsub>>
          ELSE /\ IF links.parent = None
                  THEN /\ AllocKey("Threads")
                       /\ InsertThread(AllocatedKey("Threads"),
                                       [key |-> AllocatedKey("Threads"),
                                        title |-> "", post |-> value[1].key])
                  ELSE UNCHANGED <<highest_keys, threads, returned, tsub>>
               /\ posts' = Insert(posts, key, migrate_post1(value[1], links))
               /\ mig' = [mig EXCEPT !.todo = Tail(@)]
    /\ UNCHANGED <<users, versions, serverVars>>

\* A step that stores its version as soon as its rows are rewritten.
MigratePost1DoneStamped ==
    /\ mig.pc = "posts_1"
    /\ mig.todo = <<>>
    /\ versions' = [versions EXCEPT !["Posts"] = Some(2)]
    /\ mig' = [mig EXCEPT !.pc = "posts_2", !.version = 2,
                          !.todo = IterKeys(DOMAIN posts)]
    /\ UNCHANGED <<highest_keys, posts, threads, users, returned,
                   tsub, serverVars>>

\* The Post1 -> Post2 step is over: version += 1, and the next step starts
\* its own tree.iter().
MigratePost1Done ==
    /\ mig.pc = "posts_1"
    /\ mig.todo = <<>>
    /\ mig' = [mig EXCEPT !.pc = "posts_2", !.version = 2,
                          !.todo = IterKeys(DOMAIN posts)]
    /\ UNCHANGED <<highest_keys, posts, threads, users, versions, returned,
                   tsub, serverVars>>

\* migrate_post2, the walk: while let Some(parent) = parent_key, read the
\* parent row and decode it as Post2.  ok is FALSE for PostNotFound, for a
\* row that does not decode and for a walk that does not end.
RECURSIVE Post2Root(_, _, _)
Post2Root(root_key, parent_key, fuel) ==
    IF parent_key = None THEN [ok |-> TRUE, root |-> root_key]
    ELSE IF fuel = 0 \/ Get(posts, parent_key[1]) = None
    THEN [ok |-> FALSE, root |-> root_key]
    ELSE LET parent == Deserialize(posts[parent_key[1]], Post2Fields)
         IN IF parent = None THEN [ok |-> FALSE, root |-> root_key]
            ELSE Post2Root(parent[1].key, parent[1].parent, fuel - 1)

\* migrate_post2: threads.iter().values().find_map(thread.post == root_key)
ThreadOfRoot(root_key) ==
    LET matching == SelectSeq(IterValues(threads),
                              LAMBDA thread : thread.post = root_key)
    IN IF matching = <<>> THEN None ELSE Some(matching[1])

migrate_post2(post, thread) ==
    [key |-> post.key, body |-> post.body, author |-> post.author,
     parent |-> post.parent, children |-> post.children,
     thread |-> thread.key]

\* One turn of `for item in tree.iter()` of the Post2 -> Post step.
MigratePost2 ==
    /\ mig.pc = "posts_2"
    /\ mig.todo # <<>>
    /\ LET key == Head(mig.todo)
           value == Deserialize(posts[key], Post2Fields)
           walk == Post2Root(value[1].key, value[1].parent,
                             Cardinality(DOMAIN posts))
           thread == ThreadOfRoot(walk.root)
       IN IF value = None \/ ~walk.ok \/ thread = None
          THEN /\ mig' = MigrateAbort
               /\ UNCHANGED posts
          ELSE /\ posts' = Insert(posts, key, migrate_post2(value[1], thread[1]))
               /\ mig' = [mig EXCEPT !.todo = Tail(@)]
    /\ UNCHANGED <<highest_keys, threads, users, versions, returned, tsub,
                   serverVars>>

\* End of the steps: tree.flush_async, versions.insert(Posts, version),
\* versions.flush; main returns Ok.
MigratePostsDone ==
    /\ mig.pc = "posts_2"
    /\ mig.todo = <<>>
    /\ versions' = [versions EXCEPT !["Posts"] = Some(3)]
    /\ mig' = [mig EXCEPT !.pc = "off", !.ok = TRUE, !.version = 3]
    /\ UNCHANGED <<highest_keys, posts, threads, users, returned, tsub,
                   serverVars>>

\* A database written before threads existed: n posts in the Post1 layout
\* under keys 0..n-1, m users in the User1 layout, no thread.
LegacyPosts(n) ==
    [k \in 0..(n - 1) |-> [key |-> k, body |-> "hi", author |-> 0]]

LegacyUsers(m) ==
    [k \in 0..(m - 1) |-> [key |-> k, username |-> "alice",
                           password |-> HashPassword("pw")]]

LegacyDatabase(n, m, posts_version, users_version) ==
    /\ highest_keys = [t \in TableTypes |->
                          IF t = "Posts" /\ n > 0 THEN Some(n)
                          ELSE IF t = "Users" /\ m > 0 THEN Some(m)
                          ELSE None]
    /\ posts = LegacyPosts(n)
    /\ threads = EmptyTree
    /\ users = LegacyUsers(m)
    /\ usernames = [u \in {LegacyUsers(m)[k].username : k \in 0..(m - 1)} |-> 0]
    /\ versions = [t \in TableTypes |->
                      IF t = "Posts" THEN posts_version
                      ELSE IF t = "Users" THEN users_version
                      ELSE None]
    /\ mig = [NoMig EXCEPT !.origin = [posts1 |-> n,
                                       posts_version |-> posts_version]]

\* A database the server created: startup gave every table version 1, then
\* "alice" registered, started a thread and replied to it.
ServerDatabase ==
    /\ highest_keys = [t \in TableTypes |->
                          IF t = "Posts" THEN Some(2)
                          ELSE IF t = "HighestKeys" THEN None
                          ELSE Some(1)]
    /\ posts = (0 :> [RootPost(0, 0, "hi", 0) EXCEPT !.children = <<1>>])
               @@ (1 :> ChildPost(1, 0, "hi", 0, 0))
    /\ threads = (0 :> NewThread(0, "hi", 0))
    /\ users = (0 :> NewUser(0, "alice", "pw"))
    /\ usernames = ("alice" :> 0)
    /\ versions = StartupVersions([t \in TableTypes |-> None])
    /\ mig = NoMig

MigrateInit ==
    /\ \/ \E n \in 0..MaxRows, m \in 0..1,
             posts_version \in {None, Some(1)},
             users_version \in {None, Some(1)} :
               LegacyDatabase(n, m, posts_version, users_version)
       \/ ServerDatabase
    /\ pc = [p \in Procs |-> "idle"]
    /\ loc = [p \in Procs |-> NoLoc]
    /\ ops = 0
    /\ returned = [t \in TableTypes |-> <<>>]
    /\ insertOrder = <<>>
    /\ overlapped = FALSE
    /\ disk = None
    /\ tsub = NoSub
    /\ psub = NoSub

MigrateNext ==
    \/ ServerStartup
    \/ MigrateOpen
    \/ MigrateUsersVersion
    \/ MigrateUser1
    \/ MigrateUsersDone
    \/ MigratePostsVersion
    \/ MigratePost1
    \/ MigratePost1Done
    \/ MigratePost2
    \/ MigratePostsDone

\* Server startups and runs of the migrator on one database, one process at
\* a time.
MigrateSpec == MigrateInit /\ [][MigrateNext]_vars

\* `let (key, value) = item?` or tree.insert(..)? returns a storage error
\* (sled::Error::Io) at the row the loop has reached: the run ends there
\* and the row is not written.  The error is transient and strikes once.
MigrateStorageError ==
    /\ mig.pc \in {"users_1", "posts_1", "posts_2"}
    /\ mig.todo # <<>>
    /\ mig.fault = 0
    /\ mig' = [MigrateAbort EXCEPT !.fault = mig.runs]
    /\ UNCHANGED <<highest_keys, posts, threads, users, versions, returned,
                   tsub, serverVars>>

MigrateFaultNext ==
    \/ ServerStartup
    \/ MigrateOpen
    \/ MigrateUsersVersion
    \/ MigrateUser1
    \/ MigrateUsersDone
    \/ MigratePostsVersion
    \/ MigratePost1
    \/ MigratePost1Done
    \/ MigratePost2
    \/ MigratePostsDone
    \/ MigrateStorageError

\* Runs of the migrator of which one may be ended by a storage error.
MigrateFaultSpec == MigrateInit /\ [][MigrateFaultNext]_vars

\* --------------------------------------------------------------------- feeds
\* The variables a feed connection does not touch.
tableVars == <<highest_keys, posts, threads, pc, loc, ops, returned,
               insertOrder, overlapped, regVars, migVars, disk>>

\* ThreadSse::into_sse: let sub = threads.watch();  since remembers, for the
\* claims, the thread keys that existed when the watch began.
SseThreadsSubscribe ==
    /\ ~tsub.active
    /\ tsub' = [NoSub EXCEPT !.active = TRUE, !.since = DOMAIN threads]
    /\ UNCHANGED <<tableVars, psub>>

\* ThreadSse get_valid_single for one event: a Remove gives no item
\* (continue); an Insert is enriched with the root post and its author and
\* gives a data item, or a failed item when either is missing.
ThreadFrame(event) ==
    IF event.kind # "Insert" THEN None
    ELSE LET thread == event.value
             root_post == Get(posts, thread.post)
         IN IF root_post = None \/ Get(users, root_post[1].author) = None
            THEN Some([kind |-> "error", key |-> thread.key])
            ELSE Some([kind |-> "data", key |-> thread.key,
                       title |-> thread.title, body |-> root_post[1].body,
                       author |-> users[root_post[1].author]])

\* The stream is polled and the subscriber has an event.
SseThreadsNext ==
    /\ tsub.active
    /\ tsub.queue # <<>>
    /\ tsub' = [tsub EXCEPT !.queue = Tail(@),
                            !.frames = @ \o ThreadFrame(Head(tsub.queue))]
    /\ UNCHANGED <<tableVars, psub>>

\* PostSse::into_sse: let sub = posts.watch();  thread_key is the path
\* parameter; since remembers the post keys that existed when the watch
\* began.
SsePostsSubscribe ==
    /\ ~psub.active
    /\ \E thread_key \in ThreadKeyInputs :
         psub' = [NoSub EXCEPT !.active = TRUE, !.thread_key = thread_key,
                               !.since = DOMAIN posts]
    /\ UNCHANGED <<tableVars, tsub>>

\* A feed that passes the posts of every thread.
PostFrameUnfiltered(event, thread_key) ==
    IF event.kind # "Insert" THEN None
    ELSE LET post == event.value
         IN IF Get(users, post.author) = None
            THEN Some([kind |-> "error", key |-> post.key])
            ELSE Some([kind |-> "data", key |-> post.key, body |-> post.body,
                       author |-> users[post.author]])

\* PostSse get_valid_single for one event: a Remove and a post of another
\* thread give no item (continue); a post of the thread is enriched with
\* its author and gives a data item, or a failed item when the author is
\* missing.
PostFrame(event, thread_key) ==
    IF event.kind # "Insert" THEN None
    ELSE LET post == event.value
         IN IF post.thread # thread_key THEN None
            ELSE IF Get(users, post.author) = None
            THEN Some([kind |-> "error", key |-> post.key])
            ELSE Some([kind |-> "data", key |-> post.key, body |-> post.body,
                       author |-> users[post.author]])

\* The stream is polled and the subscriber has an event.
SsePostsNext ==
    /\ psub.active
    /\ psub.queue # <<>>
    /\ psub' = [psub EXCEPT !.queue = Tail(@),
                            !.frames = @ \o PostFrame(Head(psub.queue),
                                                      psub.thread_key)]
    /\ UNCHANGED <<tableVars, tsub>>

\* The server after "alice" has registered: posts are written by logged-in
\* users, so the author of every post has a user record.
FeedInit ==
    /\ highest_keys = [t \in TableTypes |->
                          IF t = "Users" THEN Some(1) ELSE None]
    /\ posts = EmptyTree
    /\ threads = EmptyTree
    /\ pc = [p \in Procs |-> "idle"]
    /\ loc = [p \in Procs |-> NoLoc]
    /\ ops = 0
    /\ returned = [t \in TableTypes |-> <<>>]
    /\ insertOrder = <<>>
    /\ overlapped = FALSE
    /\ users = (0 :> NewUser(0, "alice", "pw"))
    /\ usernames = ("alice" :> 0)
    /\ versions = StartupVersions([t \in TableTypes |-> None])
    /\ disk = None
    /\ tsub = NoSub
    /\ psub = NoSub
    /\ mig = NoMig

\* Fewer than two requests that write are in progress.
FewerThanTwoRunning == Cardinality({p \in Procs : pc[p] # "idle"}) < 2

ThreadsFeedNext ==
    \/ \E p \in Procs :
          \/ FewerThanTwoRunning /\ ThreadPostNextThreadKey(p)
          \/ FewerThanTwoRunning /\ PostPostNextKey(p)
          \/ Step(p)
    \/ SseThreadsSubscribe
    \/ SseThreadsNext

\* The server with one ThreadsFeed connection and at most two writing
\* requests at a time; the steps of the feed fall anywhere between theirs.
ThreadsFeedSpec == FeedInit /\ [][ThreadsFeedNext]_vars

PostsFeedNext ==
    \/ \E p \in Procs :
          \/ AllIdle /\ ThreadPostNextThreadKey(p)
          \/ AllIdle /\ PostPostNextKey(p)
          \/ Step(p)
    \/ SsePostsSubscribe
    \/ SsePostsNext

\* The server with one PostsFeed connection and the writing requests served
\* one after another; the steps of the feed fall anywhere between theirs.
PostsFeedSpec == FeedInit /\ [][PostsFeedNext]_vars

\* A stream whose closure returns None after a failed item: it ends there.
UnfoldEndsOnError(sub, item) ==
    IF item # None /\ item[1].kind = "error"
    THEN [sub EXCEPT !.active = FALSE, !.queue = <<>>, !.frames = @ \o item]
    ELSE [sub EXCEPT !.queue = Tail(@), !.frames = @ \o item]

\* stream::unfold(state, |state| Some((get_valid_single(..).await, state))):
\* the closure hands back the result of get_valid_single, Ok or Err, as the
\* item and always the state for the next poll; it never returns None.
Unfold(sub, item) ==
    [sub EXCEPT !.queue = Tail(@), !.frames = @ \o item]

\* ThreadSse get_valid_single leaves with `?`: the thread does not decode,
\* posts.get or users.get returns a storage error, or the mapper fails to
\* render.  The event is consumed and the item is the error.
SseThreadsNextErr ==
    /\ tsub.active
    /\ tsub.queue # <<>>
    /\ Head(tsub.queue).kind = "Insert"
    /\ tsub' = Unfold(tsub, Some([kind |-> "error",
                                  key |-> Head(tsub.queue).key]))
    /\ UNCHANGED <<tableVars, psub>>

\* PostSse get_valid_single leaves with `?` after the thread filter:
\* users.get returns a storage error or the mapper fails to render.
SsePostsNextErr ==
    /\ psub.active
    /\ psub.queue # <<>>
    /\ Head(psub.queue).kind = "Insert"
    /\ Head(psub.queue).value.thread = psub.thread_key
    /\ psub' = Unfold(psub, Some([kind |-> "error",
                                  key |-> Head(psub.queue).key]))
    /\ UNCHANGED <<tableVars, tsub>>

FeedFaultNext ==
    \/ \E p \in Procs :
          \/ AllIdle /\ ThreadPostNextThreadKey(p)
          \/ AllIdle /\ PostPostNextKey(p)
          \/ Step(p)
    \/ SseThreadsSubscribe
    \/ SseThreadsNext
    \/ SseThreadsNextErr
    \/ SsePostsSubscribe
    \/ SsePostsNext
    \/ SsePostsNextErr

\* The server with one connection of each feed, the writing requests served
\* one after another, and enrichment that may fail for any event.
FeedFaultSpec == FeedInit /\ [][FeedFaultNext]_vars

\* ---------------------------------------------------------------------- Login
\* Result<T>: Ok(value) or an error.
Ok(value) == [ok |-> TRUE, value |-> value]
Err == [ok |-> FALSE, value |-> None]

\* A second hop that reports a missing user record as an error.
UserOfKeyStrict(key) ==
    LET user == Get(users, key)
    IN IF user = None \/ Deserialize(user[1], UserFields) = None THEN Err
       ELSE Ok(user)

\* get_by_username, second hop: ok_some!(self.users.get(key)) and
\* BINCODE.deserialize(&user)?  A missing record is Ok(None); a record that
\* is not in the User layout is an error.
UserOfKey(key) ==
    LET user == Get(users, key)
    IN IF user = None THEN Ok(None)
       ELSE IF Deserialize(user[1], UserFields) = None THEN Err
            ELSE Ok(Deserialize(user[1], UserFields))

\* Users::get_by_username: ok_some!(self.usernames.get(username)), then the
\* second hop with the key found.
get_by_username(username) ==
    LET key == Get(usernames, username)
    IN IF key = None THEN Ok(None) ELSE UserOfKey(key[1])

\* A verification that accepts any password.
VerifyAnyPassword(password, hash) == TRUE

\* password_auth::verify_password(password, &user.password).is_ok(): the
\* hash is the argon2 hash of this password.
VerifyPassword(password, hash) == hash = HashPassword(password)

\* The passwords a login form may carry.
LoginPasswords == Passwords \cup {"guess"}

\* LoginPost::from_request calls auth.authenticate(creds); authenticate looks
\* the user up by username.  loc.found keeps what the lookup returned.
AuthenticateLookup(p) ==
    /\ pc[p] = "idle"
    /\ ops < MaxOps
    /\ Begin(p)
    /\ \E username \in Usernames, password \in LoginPasswords :
         loc' = [loc EXCEPT ![p].username = username,
                            ![p].password = password,
                            ![p].found = Some(get_by_username(username))]
    /\ pc' = [pc EXCEPT ![p] = "lg_verify"]
    /\ UNCHANGED <<highest_keys, posts, threads, returned, insertOrder,
                   regVars, migVars, disk, tsub, psub>>

\* authenticate after the lookup: an error is propagated, no user is
\* Ok(None); otherwise the password is verified on a blocking thread and the
\* result is Ok(Some(user)) or Ok(None).  loc.auth keeps what authenticate
\* returned.
AuthenticateVerify(p) ==
    /\ pc[p] = "lg_verify"
    /\ LET found == loc[p].found[1]
       IN loc' = [loc EXCEPT ![p].auth = Some(
                     IF ~found.ok \/ found.value = None THEN found
                     ELSE IF VerifyPassword(loc[p].password,
                                            found.value[1].password)
                          THEN Ok(found.value) ELSE Ok(None))]
    /\ pc' = [pc EXCEPT ![p] = "lg_respond"]
    /\ UNCHANGED <<highest_keys, posts, threads, ops, returned, insertOrder,
                   overlapped, regVars, migVars, disk, tsub, psub>>

\* LoginPost::from_request after authenticate: auth.login(&user) and Success,
\* or Failure("Username or password incorrect"); the session is not part of
\* the store.
LoginPostRespond(p) ==
    /\ pc[p] = "lg_respond"
    /\ Finish(p)
    /\ UNCHANGED <<highest_keys, posts, threads, ops, returned, insertOrder,
                   overlapped, regVars, migVars, disk, tsub, psub>>

LoginNext ==
    \E p \in Procs :
        \/ AuthenticateLookup(p)
        \/ AuthenticateVerify(p)
        \/ LoginPostRespond(p)

\* Registration and login requests, served one after another.
AuthNext ==
    \E p \in Procs :
        \/ AllIdle /\ RegisterPostLookupUsername(p)
        \/ RegisterPostLookupUser(p)
        \/ RegisterPostNextKey(p)
        \/ RegisterPostInsertUser(p)
        \/ RegisterPostInsertUsername(p)
        \/ RegisterPostFlush(p)
        \/ AllIdle /\ AuthenticateLookup(p)
        \/ AuthenticateVerify(p)
        \/ LoginPostRespond(p)

AuthSpec == Init /\ [][AuthNext]_vars

\* The stores get_by_username reads, in every combination of two user keys
\* and two usernames: index entries with and without their user record, and
\* user records with and without an index entry.
LookupInit ==
    /\ highest_keys = [t \in TableTypes |->
                          IF t = "Users" THEN Some(2) ELSE None]
    /\ posts = EmptyTree
    /\ threads = EmptyTree
    /\ pc = [p \in Procs |-> "idle"]
    /\ loc = [p \in Procs |-> NoLoc]
    /\ ops = 0
    /\ returned = [t \in TableTypes |-> <<>>]
    /\ insertOrder = <<>>
    /\ overlapped = FALSE
    /\ \E keys \in SUBSET {0, 1} :
         \E name \in [keys -> Usernames] :
            users = [k \in keys |-> NewUser(k, name[k], "pw")]
    /\ \E names \in SUBSET Usernames : usernames \in [names -> {0, 1}]
    /\ versions = StartupVersions([t \in TableTypes |-> None])
    /\ disk = None
    /\ tsub = NoSub
    /\ psub = NoSub
    /\ mig = NoMig

\* Login requests against stores that no request changes.
LookupSpec == LookupInit /\ [][LoginNext]_vars

\* ---------------------------------------------------------------- thread view
\* ThreadGet::from_request_parts: posts_visited_in_order = [],
\* posts_to_visit = [thread.post]; posts_visited is the set of the keys in
\* posts_visited_in_order.  error: the handler has left with PostNotFound.
ViewStart(post_key) ==
    [posts_to_visit |-> <<post_key>>, posts_visited_in_order |-> <<>>,
     error |-> FALSE]

\* A loop body that does not look at posts_visited.
ViewStepRevisits(view) ==
    LET n == Len(view.posts_to_visit)
        post_key == view.posts_to_visit[n]
        rest == SubSeq(view.posts_to_visit, 1, n - 1)
        in_order == Append(view.posts_visited_in_order, post_key)
    IN IF Get(posts, post_key) = None
       THEN [posts_to_visit |-> <<>>, posts_visited_in_order |-> in_order,
             error |-> TRUE]
       ELSE [posts_to_visit |-> rest \o posts[post_key].children,
             posts_visited_in_order |-> in_order, error |-> FALSE]

\* One turn of `while let Some(post_key) = posts_to_visit.pop()`: a key
\* already visited is dropped; a new key is recorded, its post is read
\* (PostNotFound ends the handler) and its children are pushed.
ViewStep(view) ==
    LET n == Len(view.posts_to_visit)
        post_key == view.posts_to_visit[n]
        rest == SubSeq(view.posts_to_visit, 1, n - 1)
        in_order == Append(view.posts_visited_in_order, post_key)
    IN IF \E i \in 1..Len(view.posts_visited_in_order) :
             view.posts_visited_in_order[i] = post_key
       THEN [view EXCEPT !.posts_to_visit = rest]
       ELSE IF Get(posts, post_key) = None
       THEN [posts_to_visit |-> <<>>, posts_visited_in_order |-> in_order,
             error |-> TRUE]
       ELSE [posts_to_visit |-> rest \o posts[post_key].children,
             posts_visited_in_order |-> in_order, error |-> FALSE]

\* The loop run to its end from `view`; fuel bounds the number of turns.
RECURSIVE ViewRun(_, _)
ViewRun(view, fuel) ==
    IF view.posts_to_visit = <<>> \/ fuel = 0 THEN view
    ELSE ViewRun(ViewStep(view), fuel - 1)

\* The number of keys the loop can pop: the root and every entry of a
\* children list.
RECURSIVE ChildEntries(_)
ChildEntries(keys) ==
    IF keys = {} THEN 0
    ELSE LET k == CHOOSE j \in keys : TRUE
         IN Len(posts[k].children) + ChildEntries(keys \ {k})

\* The posts of the thread view of `thread`, in the order of the page.
ThreadView(thread) ==
    ViewRun(ViewStart(thread.post), 1 + ChildEntries(DOMAIN posts))

\* GET /thread/{thread_key}: threads.get(thread_key), ThreadNotFound ends
\* the request, otherwise the traversal starts at thread.post.
ThreadGetStart(p) ==
    /\ pc[p] = "idle"
    /\ ops < MaxOps
    /\ Begin(p)
    /\ \E thread_key \in ThreadKeyInputs :
         LET thread == Get(threads, thread_key)
         IN IF thread = None
            THEN UNCHANGED <<pc, loc>>
            ELSE /\ pc' = [pc EXCEPT ![p] = "tg_visit"]
                 /\ loc' = [loc EXCEPT ![p].view =
                                Some(ViewStart(thread[1].post))]
    /\ UNCHANGED <<highest_keys, posts, threads, returned, insertOrder,
                   regVars, migVars, disk, tsub, psub>>

\* One turn of the loop.
ThreadGetVisit(p) ==
    /\ pc[p] = "tg_visit"
    /\ loc[p].view[1].posts_to_visit # <<>>
    /\ LET view == ViewStep(loc[p].view[1])
       IN IF view.error
          THEN Finish(p)
          ELSE /\ loc' = [loc EXCEPT ![p].view = Some(view)]
               /\ UNCHANGED pc
    /\ UNCHANGED <<highest_keys, posts, threads, ops, returned, insertOrder,
                   overlapped, regVars, migVars, disk, tsub, psub>>

\* The loop is over: the posts are read again in the order visited, their
\* authors are looked up and the page is rendered.
ThreadGetRender(p) ==
    /\ pc[p] = "tg_visit"
    /\ loc[p].view[1].posts_to_visit = <<>>
    /\ Finish(p)
    /\ UNCHANGED <<highest_keys, posts, threads, ops, returned, insertOrder,
                   overlapped, regVars, migVars, disk, tsub, psub>>

\* The children lists a post of a table with keys 0..n-1 may carry: every
\* list of at most MaxChildren of the keys, with repetitions.
ChildLists(n) ==
    UNION {[1..len -> 0..(n - 1)] : len \in 0..MaxChildren}

\* Every Posts table of up to MaxViewPosts posts with any children lists
\* (duplicates, cycles and self-references included) and one thread whose
\* root is post 0.
ViewInit ==
    /\ \E n \in 1..MaxViewPosts :
         /\ \E children \in [0..(n - 1) -> ChildLists(n)] :
              posts = [k \in 0..(n - 1) |->
                         [NoPost EXCEPT !.key = k, !.body = "hi",
                                        !.children = children[k]]]
         /\ highest_keys = [t \in TableTypes |->
                               IF t = "Posts" THEN Some(n)
                               ELSE IF t = "Threads" THEN Some(1)
                               ELSE IF t = "Users" THEN Some(1)
                               ELSE None]
    /\ threads = (0 :> NewThread(0, "hi", 0))
    /\ pc = [p \in Procs |-> "idle"]
    /\ loc = [p \in Procs |-> NoLoc]
    /\ ops = 0
    /\ returned = [t \in TableTypes |-> <<>>]
    /\ insertOrder = <<>>
    /\ overlapped = FALSE
    /\ users = (0 :> NewUser(0, "alice", "pw"))
    /\ usernames = ("alice" :> 0)
    /\ versions = StartupVersions([t \in TableTypes |-> None])
    /\ disk = None
    /\ tsub = NoSub
    /\ psub = NoSub
    /\ mig = NoMig

ViewNext ==
    \E p \in Procs :
        \/ AllIdle /\ ThreadGetStart(p)
        \/ ThreadGetVisit(p)
        \/ ThreadGetRender(p)

\* Thread pages requested one after another on a table no request changes.
ViewSpec == ViewInit /\ [][ViewNext]_vars

\* ------------------------------------------------------------------ key bytes
\* The ids whose encodings are compared: the first ids and the ids around
\* the values at which the integer encoding changes its length (251, 65536)
\* or its second byte overflows (256).
EncodingEdges == {0, 249, 254, 65534}
IdInputs == {edge + offset : edge \in EncodingEdges, offset \in 0..MaxOffset}

\* DbTreeLookup::insert / get: let key: IVec = BINCODE.serialize(&key)?.into();
\* for the keys of two rows.  loc.bytes keeps the two byte strings.
SerializeKeys(p) ==
    /\ pc[p] = "idle"
    /\ ops < MaxOps
    /\ Begin(p)
    /\ \E a \in IdInputs, b \in IdInputs :
         loc' = [loc EXCEPT ![p].key = a, ![p].parent_key = b,
                            ![p].bytes = <<Serialize(a), Serialize(b)>>]
    /\ pc' = [pc EXCEPT ![p] = "key_bytes"]
    /\ UNCHANGED <<highest_keys, posts, threads, returned, insertOrder,
                   regVars, migVars, disk, tsub, psub>>

\* The call that serialized the keys returns.
SerializeKeysDone(p) ==
    /\ pc[p] = "key_bytes"
    /\ Finish(p)
    /\ UNCHANGED <<highest_keys, posts, threads, ops, returned, insertOrder,
                   overlapped, regVars, migVars, disk, tsub, psub>>

CodecNext ==
    \E p \in Procs :
        \/ AllIdle /\ SerializeKeys(p)
        \/ SerializeKeysDone(p)

\* The codec applied to pairs of ids.
CodecSpec == Init /\ [][CodecNext]_vars

RegisterNext ==
    \E p \in Procs :
        \/ RegisterPostLookupUsername(p)
        \/ RegisterPostLookupUser(p)
        \/ RegisterPostNextKey(p)
        \/ RegisterPostInsertUser(p)
        \/ RegisterPostInsertUsername(p)
        \/ RegisterPostFlush(p)

\* Registration requests, served concurrently.
RegisterSpec == Init /\ [][RegisterNext]_vars

\* ===================================================================== claims
Range(seq) == {seq[i] : i \in 1..Len(seq)}

IsPrefix(a, b) == Len(a) <= Len(b) /\ SubSeq(b, 1, Len(a)) = a

CounterValue(counter) == IF counter = None THEN 0 ELSE counter[1]

PostsOfThread(thread_key) == {k \in DOMAIN posts : posts[k].thread = thread_key}

MaxKey(keys) == CHOOSE k \in keys : \A o \in keys : o <= k

\* The keys of insertOrder whose row belongs to thread_key, oldest first.
InsertedOfThread(thread_key) ==
    SelectSeq(insertOrder, LAMBDA k : posts[k].thread = thread_key)

\* The post of thread_key whose row was inserted last.
MostRecentlyInserted(thread_key) ==
    InsertedOfThread(thread_key)[Len(InsertedOfThread(thread_key))]

\* The post of the thread of k that was inserted last before k.
InsertedBefore(k) ==
    LET before == SelectSeq(InsertedOfThread(posts[k].thread), LAMBDA o : o # k)
    IN before[Len(before)]

RECURSIVE RootOf(_, _)
RootOf(k, fuel) ==
    IF posts[k].parent = None \/ fuel = 0 THEN k
    ELSE RootOf(posts[k].parent[1], fuel - 1)

\* C1: the ids handed out by k calls of next(t) on a counter that started at
\* n = 0 are pairwise distinct and are exactly {1, ..., k}.
C1_NextIdsAreOneToK ==
    \A t \in TableTypes :
        /\ Cardinality(Range(returned[t])) = Len(returned[t])
        /\ Range(returned[t]) = 1..Len(returned[t])

\* C2: every call of next(t) hands out the stored counter of t (absent = 0)
\* plus one, so the first id of every table is 1.
C2_NextReturnsCounterPlusOne ==
    [][\A t \in TableTypes :
          returned'[t] # returned[t] =>
              returned'[t][Len(returned'[t])] = CounterValue(highest_keys[t]) + 1]_vars

\* C3: in every reachable state every thread row has an existing root post
\* whose parent is none and whose thread is the row's key.
C3_ThreadRootExists ==
    \A t \in DOMAIN threads :
        /\ threads[t].post \in DOMAIN posts
        /\ posts[threads[t].post].parent = None
        /\ posts[threads[t].post].thread = threads[t].key
        /\ threads[t].key = t

\* C3 witness: a thread row whose root post was rewritten by a Reply, while
\* another ThreadCreate sits between its two inserts.
C3_Witness ==
    /\ \E t \in DOMAIN threads : posts[threads[t].post].children # <<>>
    /\ \E p \in Procs : pc[p] \in {"tc_flush_posts", "tc_insert_thread"}

\* C4: once every started handler has completed, every post with a parent q
\* is in q's thread and is listed in q's children.
C4_NoChildLost ==
    AllIdle =>
        \A k \in DOMAIN posts :
            posts[k].parent # None =>
                LET q == posts[k].parent[1]
                IN /\ q \in DOMAIN posts
                   /\ posts[q].thread = posts[k].thread
                   /\ k \in Range(posts[q].children)

\* C5: when no two handlers overlapped, a Reply that has written its post and
\* its parent has as parent the post inserted immediately before it in that
\* thread, is listed by that parent, has no children and is in the thread of
\* its root.
C5_SequentialReplyShape ==
    \A p \in Procs :
        (~overlapped /\ pc[p] = "pp_flush") =>
            LET k == loc[p].key
                q == loc[p].parent_key
            IN /\ k \in DOMAIN posts /\ q \in DOMAIN posts
               /\ posts[k].parent = Some(q)
               /\ q = InsertedBefore(k)
               /\ k \in Range(posts[q].children)
               /\ posts[k].children = <<>>
               /\ posts[k].thread = posts[RootOf(k, Cardinality(DOMAIN posts))].thread
               /\ posts[RootOf(k, Cardinality(DOMAIN posts))].parent = None

\* C5 witness: the second Reply of a sequential run, whose parent is itself
\* a reply.
C5_Witness ==
    \E p \in Procs :
        /\ ~overlapped
        /\ pc[p] = "pp_flush"
        /\ posts[loc[p].parent_key].parent # None

RepliesFormChain ==
    \A k \in DOMAIN posts :
        /\ Len(posts[k].children) <= 1
        /\ Cardinality({c \in DOMAIN posts : posts[c].parent = Some(k)}) <= 1

\* C6 (as claimed): after any interleaving of completed handlers every post
\* has at most one child entry and at most one post naming it as parent.
C6_ChainForAnyInterleaving == AllIdle => RepliesFormChain

\* C6 (amended): when no two handlers overlapped, every post has at most one
\* child entry and at most one post naming it as parent.
C6_ChainWhenSequential == (~overlapped /\ AllIdle) => RepliesFormChain

\* C6 witness: a sequential run that built a chain of three posts.
C6_Witness ==
    /\ ~overlapped
    /\ AllIdle
    /\ \E k \in DOMAIN posts :
         /\ posts[k].parent # None
         /\ posts[posts[k].parent[1]].parent # None

\* C7 (as claimed): the parent a Reply's scan picks is the post of the thread
\* that was inserted most recently.
C7_ScanPicksMostRecentlyInserted ==
    [][\A p \in Procs :
          (pc[p] = "pp_scan" /\ pc'[p] = "pp_get_thread") =>
              loc'[p].parent_key = MostRecentlyInserted(loc[p].thread_key)]_vars

\* C7 (amended): the parent a Reply's scan picks is the post with the greatest
\* key among the posts of the thread that are in the table at the scan.
C7_ScanPicksGreatestKey ==
    [][\A p \in Procs :
          (pc[p] = "pp_scan" /\ pc'[p] = "pp_get_thread") =>
              loc'[p].parent_key = MaxKey(PostsOfThread(loc[p].thread_key))]_vars

\* C7 witness: a scan has picked a parent that is not the most recently
\* inserted post of its thread.
C7_Witness ==
    \E p \in Procs :
        /\ pc[p] = "pp_get_thread"
        /\ Cardinality(PostsOfThread(loc[p].thread_key)) >= 2
        /\ loc[p].parent_key # MostRecentlyInserted(loc[p].thread_key)

\* C8: in every step no post row is removed, no post's key, author, body,
\* parent or thread changes, and every children list only grows at its end.
C8_PostsAppendOnly ==
    [][\A k \in DOMAIN posts :
          /\ k \in DOMAIN posts'
          /\ posts'[k].key = posts[k].key
          /\ posts'[k].author = posts[k].author
          /\ posts'[k].body = posts[k].body
          /\ posts'[k].parent = posts[k].parent
          /\ posts'[k].thread = posts[k].thread
          /\ IsPrefix(posts[k].children, posts'[k].children)]_vars

\* C9: in every reachable state every key in a post's children list is a
\* stored post whose parent is that post.
C9_ChildrenPointBack ==
    \A k \in DOMAIN posts :
        \A c \in Range(posts[k].children) :
            /\ c \in DOMAIN posts
            /\ posts[c].parent = Some(posts[k].key)

\* C9 witness: a post lists a child while another Reply to the same parent has
\* inserted its post and not yet rewritten the parent.
C9_Witness ==
    \E p \in Procs :
        /\ pc[p] \in {"pp_get_parent", "pp_insert_parent"}
        /\ posts[loc[p].key].parent = Some(loc[p].parent_key)
        /\ Len(posts[loc[p].parent_key].children) >= 1
        /\ loc[p].key \notin Range(posts[loc[p].parent_key].children)

RECURSIVE ParentChainEnds(_, _)
ParentChainEnds(k, visited) ==
    IF posts[k].parent = None THEN TRUE
    ELSE LET q == posts[k].parent[1]
         IN /\ q \in DOMAIN posts
            /\ q \notin visited \cup {k}
            /\ ParentChainEnds(q, visited \cup {k})

\* C10: following parent links from any post reaches a post without parent
\* and never revisits a post.
C10_ParentsAcyclic == \A k \in DOMAIN posts : ParentChainEnds(k, {})

\* C10 witness: a post whose parent has a parent, reached with handlers
\* overlapping.
C10_Witness ==
    /\ overlapped
    /\ \E k \in DOMAIN posts :
         /\ posts[k].parent # None
         /\ posts[posts[k].parent[1]].parent # None
\* ------------------------------------------------------------------------ C11
\* C11: for every Threads row t, exactly one post filed under t.key has no
\* parent, and that post is the one t.post names.
C11_ThreadHasOneRoot ==
    \A t \in DOMAIN threads :
        {k \in DOMAIN posts : posts[k].thread = threads[t].key
                              /\ posts[k].parent = None} = {threads[t].post}

\* A thread with a reply next to the root post of another ThreadCreate.
C11_Witness ==
    \E t \in DOMAIN threads :
        /\ Cardinality(PostsOfThread(t)) >= 2
        /\ \E k \in DOMAIN posts : posts[k].thread # t /\ posts[k].parent = None

\* ------------------------------------------------------------------------ C12
\* C12: once every registration has completed, usernames are unique among
\* the user records and the index leads from each record's username back to
\* that record: users[usernames[u.username]] = u.
C12_UsernameIndexConsistent ==
    AllIdle =>
        \A k \in DOMAIN users :
            /\ users[k].username \in DOMAIN usernames
            /\ Get(users, usernames[users[k].username]) = Some(users[k])

\* ------------------------------------------------------------------------ C13
\* Post ids that a running handler has been given and has not yet written.
HeldPostKeys ==
    {loc[p].post_key : p \in {q \in Procs : pc[q] = "tc_insert_post"}}
    \cup {loc[p].key : p \in {q \in Procs :
                pc[q] \in {"pp_scan", "pp_get_thread", "pp_insert_child"}}}

\* C13: a Reply that fails with ThreadHasNoPosts changes no table and has not
\* advanced the Posts counter: after the failure every id next(Posts) has
\* handed out is the key of a stored post or is held by a running handler.
C13_FailedReplyChangesNothing ==
    [][\A p \in Procs :
          (pc[p] = "pp_scan" /\ pc'[p] = "idle") =>
              /\ posts' = posts
              /\ threads' = threads
              /\ Range(returned'["Posts"]) \subseteq (DOMAIN posts' \cup HeldPostKeys')]_vars

\* ------------------------------------------------------------------------ C14
\* C14: an id next(t) returns after a restart is greater than every id
\* next(t) returned before the restart.  Within one run of the process the
\* ids of a table increase, so this says that the ids of a table, in the
\* order they were handed out across all restarts, increase strictly.
C14_IdsIncreaseAcrossRestarts ==
    \A t \in TableTypes :
        \A i, j \in 1..Len(returned[t]) :
            i < j => returned[t][i] < returned[t][j]

\* ------------------------------------------------------------------------ C15
\* C15: across server startups and migrator runs no recorded version ever
\* becomes absent or smaller, and a step that is not the migrator's (the
\* server's startup) leaves every version that is present as it is.
C15_VersionsNeverDecrease ==
    [][\A t \in TableTypes :
          versions[t] # None =>
              /\ versions'[t] # None
              /\ versions'[t][1] >= versions[t][1]
              /\ (mig' = mig => versions'[t] = versions[t])]_vars

\* The migrator has raised Posts to 3 and a startup has filled in the
\* versions that were absent.
C15_Witness ==
    /\ mig.ok
    /\ mig.pc = "off"
    /\ mig.origin.posts_version = Some(1)
    /\ versions["Posts"] = Some(3)
    /\ versions["Threads"] = Some(1)
    /\ versions["Users"] = Some(2)

\* ------------------------------------------------------------------------ C16
\* C16: a run of the migrator that follows a run which returned Ok is a
\* no-op: none of its steps changes a row of Users, Posts or Threads, an id
\* counter or a version.
C16_SecondRunIsNoOp ==
    [][(mig' # mig /\ mig.ok) =>
          UNCHANGED <<users, usernames, posts, threads, highest_keys,
                      versions>>]_vars

\* A second run has ended on a database whose two legacy posts and one
\* legacy user the first run migrated.
C16_Witness ==
    /\ mig.runs = 2
    /\ mig.pc = "off"
    /\ mig.ok
    /\ mig.origin = [posts1 |-> 2, posts_version |-> Some(1)]
    /\ \A k \in DOMAIN posts : Deserialize(posts[k], PostFields) # None
    /\ \E k \in DOMAIN users : Deserialize(users[k], UserFields) # None

\* ------------------------------------------------------------------------ C17
\* C17: on a database with Versions[Posts] = 1, three Post1 rows and no
\* thread, a run of the migrator ends Ok with Versions[Posts] = 3, exactly
\* one thread, whose root is the first post, and every post filed under
\* that thread.
C17_ThreeRowsOneThread ==
    (/\ mig.origin = [posts1 |-> 3, posts_version |-> Some(1)]
     /\ mig.runs >= 1
     /\ mig.pc = "off")
    => /\ mig.ok
       /\ versions["Posts"] = Some(3)
       /\ Cardinality(DOMAIN threads) = 1
       /\ \A t \in DOMAIN threads :
             /\ threads[t].post = 0
             /\ \A k \in DOMAIN posts :
                   /\ Deserialize(posts[k], PostFields) # None
                   /\ posts[k].thread = threads[t].key

\* ------------------------------------------------------------------------ C18
\* The items of a connection that concern `key`: delivered frames plus events
\* still waiting in the subscriber.
ItemsFor(sub, key) ==
    Len(SelectSeq(sub.frames, LAMBDA frame : frame.key = key))
    + Len(SelectSeq(sub.queue, LAMBDA event : event.key = key))

\* C18: a ThreadsFeed connection gets exactly one item for every thread
\* created after it subscribed and none for any other: one Insert event per
\* thread row, delivered as one data frame built from the thread's title,
\* the body of its root post and the root post's author.
C18_OneFramePerThreadCreate ==
    tsub.active =>
        /\ \A t \in DOMAIN threads \ tsub.since : ItemsFor(tsub, t) = 1
        /\ \A i \in 1..Len(tsub.queue) :
              tsub.queue[i].key \in DOMAIN threads \ tsub.since
        /\ \A i \in 1..Len(tsub.frames) :
              LET frame == tsub.frames[i]
                  thread == threads[frame.key]
              IN /\ frame.key \in DOMAIN threads \ tsub.since
                 /\ frame = [kind |-> "data", key |-> thread.key,
                             title |-> thread.title,
                             body |-> posts[thread.post].body,
                             author |-> users[posts[thread.post].author]]

\* The connection subscribed after one ThreadCreate and has delivered the
\* frame of a later one.
C18_Witness ==
    /\ tsub.active
    /\ tsub.since # {}
    /\ tsub.queue = <<>>
    /\ Len(tsub.frames) = 1

\* ------------------------------------------------------------------------ C19
\* C19: every data frame of a PostsFeed(t) connection is for a post whose
\* thread is t.
C19_OnlyPostsOfTheThread ==
    \A i \in 1..Len(psub.frames) :
        /\ psub.frames[i].key \in DOMAIN posts
        /\ posts[psub.frames[i].key].thread = psub.thread_key

\* The connection has delivered a frame and has passed over the event of a
\* post written to another thread after it subscribed.
C19_Witness ==
    /\ psub.active
    /\ psub.frames # <<>>
    /\ psub.queue = <<>>
    /\ \E k \in DOMAIN posts \ psub.since : posts[k].thread # psub.thread_key

\* ------------------------------------------------------------------------ C20
\* C20: a PostsFeed(t) connection gets exactly one item for every post
\* written to thread t after it subscribed, and no frame for a post that
\* existed before.
C20_OneFramePerReply ==
    psub.active =>
        /\ \A i \in 1..Len(psub.frames) : psub.frames[i].key \notin psub.since
        /\ \A k \in DOMAIN posts \ psub.since :
              posts[k].thread = psub.thread_key => ItemsFor(psub, k) = 1

\* A step of a feed's stream that consumes the event at the head of `before`:
\* an Insert that passes the filter adds exactly one item, for that event,
\* and any other event adds none; no waiting event is dropped and the stream
\* stays alive.
ConsumesOne(before, after, passes) ==
    LET event == Head(before.queue)
    IN /\ after.active
       /\ IsPrefix(Tail(before.queue), after.queue)
       /\ IF event.kind = "Insert" /\ passes
          THEN /\ Len(after.frames) = Len(before.frames) + 1
               /\ IsPrefix(before.frames, after.frames)
               /\ after.frames[Len(after.frames)].key = event.key
          ELSE after.frames = before.frames

\* C21: a feed whose enrichment has failed for an event emitted one failed
\* item for it and stays alive: no step ends the stream, and from then on
\* every step still consumes one event and emits exactly one item for an
\* Insert that passes the filter.
C21_StreamSurvivesFailedItem ==
    [][ /\ (tsub.active => tsub'.active)
        /\ (psub.active => psub'.active)
        /\ (\E i \in 1..Len(tsub.frames) : tsub.frames[i].kind = "error")
              /\ tsub.queue # <<>> /\ tsub'.queue # tsub.queue
              => (IsPrefix(tsub.queue, tsub'.queue)
                  \/ ConsumesOne(tsub, tsub', TRUE))
        /\ (\E i \in 1..Len(psub.frames) : psub.frames[i].kind = "error")
              /\ psub.queue # <<>> /\ psub'.queue # psub.queue
              => (IsPrefix(psub.queue, psub'.queue)
                  \/ ConsumesOne(psub, psub',
                         Head(psub.queue).kind = "Insert"
                         /\ Head(psub.queue).value.thread = psub.thread_key))
      ]_vars

\* Both feeds have emitted a failed item and, after it, the item of a later
\* event.
C21_Witness ==
    /\ tsub.active /\ psub.active
    /\ \E i, j \in 1..Len(tsub.frames) :
          i < j /\ tsub.frames[i].kind = "error" /\ tsub.frames[j].kind = "data"
    /\ \E i, j \in 1..Len(psub.frames) :
          i < j /\ psub.frames[i].kind = "error" /\ psub.frames[j].kind = "data"

\* The user records whose username is `username`.
RegisteredUnder(username) ==
    {users[k] : k \in {j \in DOMAIN users : users[j].username = username}}

\* C22: authenticate(username, password) returns none when no user is
\* registered under the username or the password does not verify against the
\* stored hash, and otherwise exactly the user record registered under the
\* username; no step of it modifies the Users store.
C22_AuthenticateReturnsRegisteredUser ==
    /\ [](\A p \in Procs : loc[p].auth # None =>
            LET r == loc[p].auth[1]
                registered == RegisteredUnder(loc[p].username)
                verified == {u \in registered :
                               u.password = HashPassword(loc[p].password)}
            IN /\ r.ok
               /\ (r.value = None) <=> (verified = {})
               /\ r.value # None =>
                     /\ r.value[1] \in verified
                     /\ r.value = Get(users, usernames[loc[p].username]))
    /\ [][(\E p \in Procs : /\ pc'[p] # pc[p]
                             /\ \/ pc'[p] \in {"lg_verify", "lg_respond"}
                                \/ pc[p] = "lg_respond")
           => UNCHANGED <<users, usernames, highest_keys>>]_vars

\* authenticate has returned the registered user for the right password.
C22_Witness ==
    \E p \in Procs :
        /\ loc[p].auth # None
        /\ loc[p].auth[1].value # None
        /\ loc[p].auth[1].value[1].username = loc[p].username
        /\ loc[p].username \in DOMAIN usernames

\* C23: get_by_username(name) returns not-found (Ok(None), not an error)
\* when the index holds an id for the name but no user record exists under
\* that id, and returns the record when both lookups resolve.
C23_DanglingIndexIsNotFound ==
    \A p \in Procs : loc[p].found # None =>
        LET r == loc[p].found[1]
            name == loc[p].username
        IN name \in DOMAIN usernames =>
              IF usernames[name] \in DOMAIN users
              THEN r = Ok(Some(users[usernames[name]]))
              ELSE r = Ok(None)

\* A lookup by a name whose index entry has no user record has returned.
C23_Witness ==
    \E p \in Procs :
        /\ loc[p].found = Some(Ok(None))
        /\ loc[p].username \in DOMAIN usernames
        /\ usernames[loc[p].username] \notin DOMAIN users

\* The keys of Posts that the Post1 -> Post2 step has rewritten, in a
\* database that held Post1 rows.
RewrittenByPost1 ==
    IF mig.origin.posts1 >= 1
    THEN {k \in DOMAIN posts : "parent" \in DOMAIN posts[k]}
    ELSE {}

\* The key before / after `key` in the iteration order of Posts, if any.
Predecessor(key) ==
    LET ks == IterKeys(DOMAIN posts)
        i == CHOOSE j \in 1..Len(ks) : ks[j] = key
    IN IF i = 1 THEN None ELSE Some(ks[i - 1])

Successor(key) ==
    LET ks == IterKeys(DOMAIN posts)
        i == CHOOSE j \in 1..Len(ks) : ks[j] = key
    IN IF i = Len(ks) THEN None ELSE Some(ks[i + 1])

\* C24: the Post1 -> Post2 step gives every post its immediate predecessor
\* in key order as parent (none only for the first post) and the one-element
\* list of its immediate successor as children (empty only for the last).
C24_LinksFollowKeyOrder ==
    \A k \in RewrittenByPost1 :
        /\ posts[k].parent = Predecessor(k)
        /\ posts[k].children = Successor(k)

\* C25: the Post1 -> Post2 step creates a Thread row, rooted at the post,
\* exactly for the posts that have no predecessor in key order, and none for
\* a post that has a predecessor.
C25_ThreadOnlyForFirstPost ==
    \A k \in RewrittenByPost1 :
        LET rooted == {t \in DOMAIN threads : threads[t].post = k}
        IN IF Predecessor(k) = None THEN Cardinality(rooted) = 1
           ELSE rooted = {}

\* Every parent chain of Posts ends at a post that is the root of a thread.
ChainsEndAtThreadRoots ==
    \A k \in DOMAIN posts :
        /\ "parent" \in DOMAIN posts[k]
        /\ ParentChainEnds(k, {})
        /\ \E t \in DOMAIN threads :
              threads[t].post = RootOf(k, Cardinality(DOMAIN posts))

\* C26: on a table in which every parent chain ends at the root of a thread,
\* the Post2 -> Post step fails at no row and gives the row the key of the
\* thread whose root ends its parent chain, also when the parent row was
\* rewritten earlier in the same step.
C26_Post2StepCompletes ==
    [][(mig.pc = "posts_2" /\ mig.todo # <<>> /\ ChainsEndAtThreadRoots)
       => LET key == Head(mig.todo)
          IN /\ mig'.pc = "posts_2"
             /\ "thread" \in DOMAIN posts'[key]
             /\ \E t \in DOMAIN threads :
                   /\ threads[t].post = RootOf(key, Cardinality(DOMAIN posts))
                   /\ posts'[key].thread = threads[t].key]_vars

\* C27: when a decode or transform fails at a row of table T the migrator
\* stops at once: the failing step writes nothing, the rows of T it had
\* rewritten before are in the new layout, the rows it had not reached are
\* as they were, and Versions[T] is what the run found, also when an earlier
\* step of the run had rewritten every row.
C27_AbortKeepsPartialProgress ==
    [][(mig.pc \in {"users_1", "posts_1", "posts_2"}
        /\ mig'.pc = "off" /\ ~mig'.ok)
       => LET T == IF mig.pc = "users_1" THEN "Users" ELSE "Posts"
              tree == IF mig.pc = "users_1" THEN users ELSE posts
              to == IF mig.pc = "users_1" THEN UserFields
                    ELSE IF mig.pc = "posts_1" THEN Post2Fields
                    ELSE PostFields
          IN /\ UNCHANGED <<users, posts, threads, highest_keys, versions>>
             /\ versions'[T] = mig.before[T]
             /\ \A k \in DOMAIN tree \ Range(mig.todo) :
                   DOMAIN tree[k] = to]_vars

\* A run has failed in the Post2 -> Post step after the Post1 -> Post2 step
\* had rewritten every row: the first row is a Post, a later row is still a
\* Post2, and the recorded version of Posts is still 1.
C27_Witness ==
    /\ mig.pc = "off" /\ mig.runs = 1 /\ ~mig.ok
    /\ mig.before["Posts"] = Some(1)
    /\ versions["Posts"] = Some(1)
    /\ 0 \in DOMAIN posts /\ DOMAIN posts[0] = PostFields
    /\ \E k \in DOMAIN posts : DOMAIN posts[k] = Post2Fields

\* C28: while the migrator applies the transform registered for version v
\* to a table, every row it has still to transform is encoded in schema
\* version v; rows the server wrote into a database whose versions the
\* server startup initialised are never decoded under an older schema.
C28_RowsMatchFromVersion ==
    /\ mig.pc = "users_1" =>
          \A k \in Range(mig.todo) : DOMAIN users[k] = User1Fields
    /\ mig.pc = "posts_1" =>
          \A k \in Range(mig.todo) : DOMAIN posts[k] = Post1Fields
    /\ mig.pc = "posts_2" =>
          \A k \in Range(mig.todo) : DOMAIN posts[k] = Post2Fields

\* C29: the migrator is restartable.  In a database that recorded version 1
\* for its Post1 rows, a run that a storage error ended at some row is
\* followed by a run without error; when that run is over, Posts is at its
\* target version and every row of it is in the target layout.
C29_RerunReachesTarget ==
    (/\ mig.pc = "off"
     /\ mig.fault # 0 /\ mig.runs > mig.fault
     /\ mig.origin.posts1 >= 1 /\ mig.origin.posts_version = Some(1))
    => /\ mig.ok
       /\ versions["Posts"] = Some(3)
       /\ \A k \in DOMAIN posts : DOMAIN posts[k] = PostFields

\* C30: for a table whose version is absent the migrator records the newest
\* version (2 for Users, 3 for Posts), and the run that found the version
\* absent changes no row of the table, no thread and no id counter.
C30_AbsentVersionOnlyStamps ==
    [][/\ (mig.pc = "users" /\ versions["Users"] = None)
            => versions'["Users"] = Some(2)
       /\ (mig.pc = "posts" /\ versions["Posts"] = None)
            => versions'["Posts"] = Some(3)
       /\ (mig.pc # "off" /\ mig.before["Users"] = None)
            => UNCHANGED users
       /\ (mig.pc # "off" /\ mig.before["Posts"] = None)
            => UNCHANGED <<posts, threads, highest_keys>>]_vars

\* A run has ended on a database that held Post1 rows and no version for
\* Posts: version 3 is recorded and the rows are the Post1 rows.
C30_Witness ==
    /\ mig.pc = "off" /\ mig.ok
    /\ mig.before["Posts"] = None
    /\ mig.origin.posts1 >= 1
    /\ versions["Posts"] = Some(3)
    /\ posts = LegacyPosts(mig.origin.posts1)
    /\ threads = EmptyTree

\* C31: a registration that found its username in the index is rejected
\* with the failure outcome and changes nothing: its next step ends the
\* request, and no user record, no index entry and no id counter changes.
C31_TakenUsernameChangesNothing ==
    [][\A p \in Procs :
          (pc[p] = "rg_lookup_user" /\ pc'[p] # pc[p])
          => /\ pc'[p] = "idle"
             /\ UNCHANGED <<users, usernames, highest_keys>>]_vars

\* Two registrations have been served and the second was rejected: there is
\* one user record and one id has been handed out.
C31_Witness ==
    /\ AllIdle /\ ops = 2
    /\ Cardinality(DOMAIN users) = 1
    /\ Cardinality(DOMAIN usernames) = 1
    /\ Len(returned["Users"]) = 1

\* C32: in every state, also between the two writes of Users::insert and
\* for any interleaving of registrations, every entry name -> id of the
\* username index leads to a user record whose username is name.
C32_IndexNeverDangles ==
    \A name \in DOMAIN usernames :
        /\ usernames[name] \in DOMAIN users
        /\ users[usernames[name]].username = name

\* A registration stands between the two writes of Users::insert while
\* another one is running and the index already has an entry.
C32_Witness ==
    \E p, q \in Procs :
        /\ p # q
        /\ pc[p] = "rg_insert_username"
        /\ pc[q] # "idle"
        /\ DOMAIN usernames # {}

\* C33: enrichment in a ThreadsFeed never fails with PostNotFound for a
\* thread that ThreadCreate made: the root post is in Posts from the moment
\* the thread's Insert event is handed to the subscriber, whatever other
\* requests are interleaved, and no item of the feed is a failed item.
C33_RootPostPresentForThreadEvent ==
    /\ \A i \in 1..Len(tsub.queue) :
          Get(posts, tsub.queue[i].value.post) # None
    /\ \A i \in 1..Len(tsub.frames) :
          /\ tsub.frames[i].kind = "data"
          /\ Get(posts, threads[tsub.frames[i].key].post) # None

\* The feed has delivered the item of a thread while the event of another
\* thread waits and a request is writing.
C33_Witness ==
    /\ tsub.active
    /\ tsub.frames # <<>>
    /\ tsub.queue # <<>>
    /\ ~AllIdle

\* The keys a traversal has visited.
Visited(view) == Range(view.posts_visited_in_order)

\* C35: the traversal of the thread view terminates on every finite Posts
\* table, also when children lists hold duplicates or form a cycle, and
\* visits each post key at most once: no key stands twice in
\* posts_visited_in_order, every visited key is a key of the table, and each
\* turn of the loop either visits a new key or shortens posts_to_visit.
C35_TraversalTerminates ==
    /\ [](\A p \in Procs : loc[p].view # None =>
            LET in_order == loc[p].view[1].posts_visited_in_order
            IN /\ \A i, j \in 1..Len(in_order) :
                     in_order[i] = in_order[j] => i = j
               /\ Range(in_order) \subseteq DOMAIN posts)
    /\ [][\A p \in Procs :
             (pc[p] = "tg_visit" /\ pc'[p] = "tg_visit" /\ loc'[p] # loc[p])
             => LET before == loc[p].view[1]
                    after == loc'[p].view[1]
                IN \/ /\ Visited(before) \subseteq Visited(after)
                      /\ Visited(before) # Visited(after)
                   \/ /\ Visited(before) = Visited(after)
                      /\ Len(after.posts_to_visit)
                            < Len(before.posts_to_visit)]_vars

\* A traversal has come to its end on a table in which the root lists the
\* same child twice and that child lists the root.
C35_Witness ==
    \E p \in Procs :
        /\ pc[p] = "tg_visit"
        /\ loc[p].view[1].posts_to_visit = <<>>
        /\ loc[p].view[1].posts_visited_in_order = <<0, 1>>
        /\ posts[0].children = <<1, 1>>
        /\ 0 \in Range(posts[1].children)

\* C34: when every ThreadCreate and Reply has completed, whatever their
\* interleaving was, the thread view of each thread t (the traversal from
\* t.post along the children lists) ends without error and lists exactly
\* the posts whose thread field is t.key.
C34_ViewListsPostsOfThread ==
    AllIdle =>
        \A t \in DOMAIN threads :
            LET view == ThreadView(threads[t])
            IN /\ ~view.error
               /\ view.posts_to_visit = <<>>
               /\ Range(view.posts_visited_in_order) = PostsOfThread(t)

C37_NextChangesOneCounter ==
    [][highest_keys' # highest_keys =>
          /\ \E t \in TableTypes :
                /\ highest_keys'[t] = Some(CounterValue(highest_keys[t]) + 1)
                /\ \A u \in TableTypes \ {t} :
                      /\ highest_keys'[u] = highest_keys[u]
                      /\ returned'[u] = returned[u]
          /\ UNCHANGED <<posts, threads, users, usernames, versions>>]_vars

\* Ids of two tables have been handed out and their counters differ.
C37_Witness ==
    /\ highest_keys["Posts"] = Some(2)
    /\ highest_keys["Threads"] = Some(1)
    /\ highest_keys["Users"] = None
    /\ Len(returned["Posts"]) = 2
====
